---- MODULE Spec2Model ----
(***************************************************************************)
(* A model of fastapi-auth: the authentication service                     *)
(* (services/user_service.py: UserService.signup_user and log_user_in run  *)
(* as asyncio coroutines over the auth_users table of models/user.py) and  *)
(* the process-wide settings module (settings.py: get_env_file_path,       *)
(* set_env_file_path, configure and the lru_cache'd get_settings).         *)
(*                                                                         *)
(* Every Python value is a record with a "kind" field, so that None, a     *)
(* User row, a coroutine object, an exception and a token can be compared. *)
(***************************************************************************)
EXTENDS Integers, Sequences, FiniteSets, TLC

\* ------------------------------------------------------------------ bounds
NumCalls == 2
MaxInitUsers == 2
NumConfigured == 2
NumThreads == 2
NumGenerators == 2

Procs == 1 .. NumCalls
Emails == {"a@x.com", "b@x.com"}
\* a password that is stored hashed, and the empty one, which matches no hash
Plain == {"p1", ""}

\* ------------------------------------------------------------ Python values
None == [kind |-> "None"]
Str(s) == [kind |-> "str", val |-> s]
Passwords == {Str(s) : s \in Plain}

\* HTTPException(status_code=..., detail=...) of fastapi
HTTPException(status_code, detail) ==
    [kind |-> "HTTPException", status_code |-> status_code, detail |-> detail]

UserNotFoundError == HTTPException(404, "No user exists with the given email.")
PasswordRequiredError == HTTPException(400, "Password is required.")
InvalidCredentialsError == HTTPException(401, "Invalid credentials")
DuplicateUserError == HTTPException(400, "User already exists.")

\* raised by the storage layer when an INSERT breaks the unique index
IntegrityError == [kind |-> "IntegrityError"]

\* The object a call of the async repository method returns before it is
\* awaited: a coroutine object, not the row it would resolve to.
Coroutine(email) == [kind |-> "coroutine", of |-> "get_user_by_email", email |-> email]

\* Python's truth value of an object as `if x:` / `if not x:` take it: None is
\* false; a row, a coroutine object and a non-empty hash string are true.
Truthy(v) == v.kind # "None"

\* ---------------------------------------------------------------- passwords
\* utils.password: the stored hash of a plaintext, and its verification
Hash(p) == [kind |-> "hash", of |-> p.val]
verify_password(password, hashed_password) ==
    password.kind = "str" /\ hashed_password = Hash(password)

\* utils.jwt.generate_jwt_token(user=..., settings=...): the credential names
\* the object it was issued for
generate_jwt_token(user, st) == [kind |-> "token", sub |-> user]

\* ------------------------------------------------------------ auth_users
\* class User: one row of auth_users
User(id, email, password) ==
    [kind |-> "User", id |-> id, email |-> email, password |-> password]

\* email = mapped_column(String(255), nullable=False, unique=True, index=True)
UniqueEmail_dropped(rows) == TRUE
UniqueEmail(rows) == \A u, v \in rows : u.email = v.email => u = v

PrimaryKey(rows) == \A u, v \in rows : u.id = v.id => u = v

\* UserRepository.get_user_by_email(email), once awaited: the row or None
get_user_by_email(rows, email) ==
    IF \E u \in rows : u.email = email
    THEN CHOOSE u \in rows : u.email = email
    ELSE None

NextId(rows) ==
    IF rows = {} THEN 1
    ELSE 1 + (CHOOSE i \in {u.id : u \in rows} : \A u \in rows : u.id <= i)

\* UserRepository.create_user(user=signup), once awaited: the INSERT, refused
\* by the unique index on email
create_user(rows, signup) ==
    LET row == User(NextId(rows), signup.email,
                    IF signup.password.kind = "str" THEN Hash(signup.password) ELSE None)
    IN  IF UniqueEmail(rows \cup {row})
        THEN [raised |-> None, rows |-> rows \cup {row}, user |-> row]
        ELSE [raised |-> IntegrityError, rows |-> rows, user |-> None]

\* --------------------------------------------------------------- state
VARIABLES
    users,      \* the rows of auth_users
    settings,   \* UserService.settings
    pc,         \* per call: where its coroutine stands
    call,       \* per call: the operation and its schema
    user,       \* per call: the local variable `user`
    result      \* per call: what it returned or raised

authVars == <<users, settings, pc, call, user, result>>

VARIABLES
    ENVIRONMENT,     \* os.getenv("ENVIRONMENT", "dev"), read at import
    AUTH_ENV_FILE,   \* the process environment's AUTH_ENV_FILE
    files,           \* the file system: path parts -> content
    _env_file_path,  \* the module global
    _settings,       \* the module global
    model_config,    \* Settings.model_config["env_file"]
    cache,           \* the lru_cache of get_settings: None when empty
    returned,        \* what the last call returned or raised
    last            \* history: the last call and the arguments last passed

settingsVars == <<ENVIRONMENT, AUTH_ENV_FILE, files, _env_file_path, _settings,
                  model_config, cache, returned, last>>

VARIABLES
    tpc,        \* per thread: the line its call of a settings function stands at
    tlocal,     \* per thread: the argument of its call, or the value it computed
    tret,       \* per thread: what its last get_settings() returned or raised
    settled     \* history: the argument of the configure call that returned last

threadVars == <<tpc, tlocal, tret, settled>>

VARIABLES
    fail_silently,  \* per generator: DatabaseSession.fail_silently
    gpc,            \* per generator: not started, suspended at its yield, or ended
    session,        \* per generator: the AsyncSession of its `async with`
    yields,         \* per generator: how many sessions it has yielded
    logged,         \* per generator: the exception logger.error was given
    thrown,         \* per generator: the exception raised in it or thrown into it
    given           \* per generator: what its last resumption gave the consumer

sessionVars == <<fail_silently, gpc, session, yields, logged, thrown, given>>

vars == <<authVars, settingsVars, threadVars, sessionVars>>

NoCall == [op |-> "none"]
NoResult == [kind |-> "pending"]

\* what one synchronous run of a coroutine ends in: finished, or suspended
Done(r) == [next |-> "done", result |-> r]
Await(at) == [next |-> at, result |-> NoResult]

\* ------------------------------------------------------ UserService
\* signup_user, lines 50-58: the lookup is not awaited, then the existence test
signup_user_50_58_awaited(user_signup) == Await("signup_65")
signup_user_50_58(user_signup) ==
    LET u == Coroutine(user_signup.email)
    IN  IF Truthy(u) THEN Done(DuplicateUserError) ELSE Await("signup_65")

\* raised by `user.password` when `user` is not a row
AttributeError == [kind |-> "AttributeError"]

\* log_user_in, lines 37-47
log_user_in_37_47_unverified(u, user_login, st) ==
    IF u.kind # "User" THEN Done(AttributeError)
    ELSE IF ~Truthy(u.password) THEN Done(PasswordRequiredError)
    ELSE Done(generate_jwt_token(u, st))
log_user_in_37_47(u, user_login, st) ==
    IF u.kind # "User" THEN Done(AttributeError)
    ELSE IF ~Truthy(u.password) THEN Done(PasswordRequiredError)
    ELSE IF ~verify_password(user_login.password, u.password)
         THEN Done(InvalidCredentialsError)
         ELSE Done(generate_jwt_token(u, st))

\* log_user_in, lines 28-47, run when the awaited lookup has delivered u
log_user_in_28_47_provision(u, user_login, st) ==
    IF st.passwordless_login_enabled /\ ~Truthy(u) THEN Await("login_35")
    ELSE IF ~Truthy(u) THEN Done(UserNotFoundError)
    ELSE log_user_in_37_47(u, user_login, st)
log_user_in_28_47(u, user_login, st) ==
    IF ~Truthy(u) THEN Done(UserNotFoundError)
    ELSE IF st.passwordless_login_enabled
         THEN LET s == signup_user_50_58([email |-> user_login.email, password |-> None])
              IN  IF s.next = "done" THEN s ELSE Await("login_35")
         ELSE log_user_in_37_47(u, user_login, st)

\* signup_user, lines 65-68, run when the awaited create_user has finished:
\* the token is issued for the local `user` of line 50
signup_user_65_68(rows, u, user_signup, st) ==
    LET c == create_user(rows, user_signup)
    IN  IF c.raised # None
        THEN [rows |-> c.rows, out |-> Done(c.raised)]
        ELSE [rows |-> c.rows, out |-> Done(generate_jwt_token(u, st))]

\* ------------------------------------------------------------------ Init
StoredPasswords == {None, Hash(Str("p1"))}

InitRows ==
    {User(i, e, h) : i \in 1 .. MaxInitUsers, e \in Emails, h \in StoredPasswords}

\* the table as the service finds it: any rows the table's constraints admit
Tables == {rows \in SUBSET InitRows : PrimaryKey(rows) /\ UniqueEmail(rows)}

SettingsValues ==
    [passwordless_login_enabled : BOOLEAN, email_verification_required : BOOLEAN]

AuthInit ==
    /\ users \in Tables
    /\ settings \in SettingsValues
    /\ pc = [p \in Procs |-> "idle"]
    /\ call = [p \in Procs |-> NoCall]
    /\ user = [p \in Procs |-> None]
    /\ result = [p \in Procs |-> NoResult]

\* --------------------------------------------------------------- actions
Finish(p, out) ==
    /\ pc' = [pc EXCEPT ![p] = out.next]
    /\ result' = [result EXCEPT ![p] = out.result]

\* one run of a signup_user coroutine, up to its next suspension or its end
signup_user(p) ==
    /\ UNCHANGED <<settingsVars, threadVars, sessionVars>>
    /\ CASE pc[p] = "idle" ->
              \E e \in Emails, pw \in Passwords \cup {None} :
              LET user_signup == [op |-> "signup", email |-> e, password |-> pw]
              IN  /\ call' = [call EXCEPT ![p] = user_signup]
                  /\ user' = [user EXCEPT ![p] = Coroutine(e)]
                  /\ Finish(p, signup_user_50_58(user_signup))
                  /\ UNCHANGED <<users, settings>>
      [] pc[p] = "signup_65" ->
           LET r == signup_user_65_68(users, user[p], call[p], settings)
           IN  /\ users' = r.rows
               /\ Finish(p, r.out)
               /\ UNCHANGED <<settings, call, user>>
      [] OTHER -> FALSE

\* one run of a log_user_in coroutine, up to its next suspension or its end
log_user_in(p) ==
    /\ UNCHANGED <<settingsVars, threadVars, sessionVars>>
    /\ CASE pc[p] = "idle" ->
           \E e \in Emails, pw \in Passwords :
              /\ call' = [call EXCEPT ![p] = [op |-> "login", email |-> e, password |-> pw]]
              /\ Finish(p, Await("login_25"))
              /\ UNCHANGED <<users, settings, user>>
      [] pc[p] = "login_25" ->
           LET u == get_user_by_email(users, call[p].email)
           IN  /\ user' = [user EXCEPT ![p] = u]
               /\ Finish(p, log_user_in_28_47(u, call[p], settings))
               /\ UNCHANGED <<users, settings, call>>
      [] pc[p] = "login_35" ->
           \* the nested signup_user(UserSignupSchema(email=...)) resumes at its
           \* line 65; its exception propagates, its token is dropped
           LET r == signup_user_65_68(users, Coroutine(call[p].email),
                                      [email |-> call[p].email, password |-> None],
                                      settings)
           IN  /\ users' = r.rows
               /\ Finish(p, IF r.out.result.kind = "token"
                            THEN log_user_in_37_47(user[p], call[p], settings)
                            ELSE r.out)
               /\ UNCHANGED <<settings, call, user>>
      [] OTHER -> FALSE

\* =================================================================
\* settings.py
\* =================================================================
\* A path is pathlib's: its parts; an absolute one starts with the root "/".
Path(parts) == [kind |-> "Path", parts |-> parts]
is_absolute(path) == Len(path.parts) > 0 /\ path.parts[1] = "/"
\* the / operator of pathlib, for a relative right-hand side
Join(path, rel) == Path(path.parts \o rel.parts)

\* BASE_DIR = Path(__file__).parent
BASE_DIR == Path(<<"/", "pkg">>)

\* f".{ENVIRONMENT}.env"
DotEnvName(env) == IF env = "dev" THEN ".dev.env" ELSE ".prod.env"

\* the text get_env_file_path writes into a file it creates
AutoGenerated(env) == [kind |-> "text", by |-> "auto-generated", environment |-> env]
UserText == [kind |-> "text", by |-> "user", environment |-> "any"]
Directory == [kind |-> "dir"]

exists(fs, path) == path.parts \in DOMAIN fs

\* env_file.parent.mkdir(parents=True, exist_ok=True): every missing ancestor
Ancestors(path) == {SubSeq(path.parts, 1, n) : n \in 1 .. (Len(path.parts) - 1)}

\* mkdir of the ancestors, then write_text of the generated header
write_new(fs, path, env) ==
    [q \in DOMAIN fs \cup Ancestors(path) \cup {path.parts} |->
        IF q \in DOMAIN fs THEN fs[q]
        ELSE IF q = path.parts THEN AutoGenerated(env)
        ELSE Directory]

\* os.getenv("AUTH_ENV_FILE") as `elif` takes it: set and not empty
EnvSet(v) == v.kind = "str" /\ v.val # <<>>

\* get_env_file_path(): the path chosen, and the file system it leaves
get_env_file_path_envfirst(override, auth_env_file, env, fs) ==
    LET chosen == IF EnvSet(auth_env_file) THEN Path(auth_env_file.val)
                  ELSE IF override # None THEN override
                  ELSE Join(BASE_DIR, Path(<<DotEnvName(env)>>))
        env_file == IF is_absolute(chosen) THEN chosen ELSE Join(BASE_DIR, chosen)
    IN  [path |-> env_file,
         fs |-> IF exists(fs, env_file) THEN fs ELSE write_new(fs, env_file, env)]
get_env_file_path(override, auth_env_file, env, fs) ==
    LET chosen == IF override # None THEN override
                  ELSE IF EnvSet(auth_env_file) THEN Path(auth_env_file.val)
                  ELSE Join(BASE_DIR, Path(<<DotEnvName(env)>>))
        env_file == IF ~is_absolute(chosen) THEN Join(BASE_DIR, chosen) ELSE chosen
    IN  [path |-> env_file,
         fs |-> IF ~exists(fs, env_file) THEN write_new(fs, env_file, env) ELSE fs]


\* ------------------------------------------------------------- inputs
\* the paths a caller hands to set_env_file_path
SetPaths == {Path(<<"custom.env">>), Path(<<"/", "etc", "auth.env">>)}
\* the values AUTH_ENV_FILE takes: unset, empty, relative, absolute
EnvValues == {None, Str(<<>>), Str(<<"ci.env">>), Str(<<"/", "run", "auth.env">>)}
Environments == {"dev", "prod"}
\* the Settings objects a caller hands to configure
Configured == {[kind |-> "Settings", source |-> "configure", id |-> i] : i \in 1 .. NumConfigured}

\* Settings(): loaded from the environment and the env file of model_config
EnvLoaded(env_file) == [kind |-> "Settings", source |-> "environment", env_file |-> env_file]
\* pydantic's error when a required field has no value
ValidationError == [kind |-> "ValidationError"]

\* files that may be there before the module is imported
MayPreExist == {<<"/", "pkg", "custom.env">>, <<"/", "run", "auth.env">>,
                <<"/", "pkg", ".dev.env">>}
BareFs == [q \in {<<"/">>, <<"/", "pkg">>} |-> Directory]
FsWith(present) ==
    [q \in DOMAIN BareFs \cup UNION {Ancestors(Path(f)) : f \in present} \cup present |->
        IF q \in present THEN UserText ELSE Directory]

NoHistory == [op |-> "import", configure |-> None, set_env_file_path |-> None]

\* the module after import: line 121 has called get_env_file_path() once
SettingsInitWith(env, auth_env_file, fs0) ==
    LET g == get_env_file_path(None, auth_env_file, env, fs0)
    IN  /\ ENVIRONMENT = env
        /\ AUTH_ENV_FILE = auth_env_file
        /\ files = g.fs
        /\ _env_file_path = None
        /\ _settings = None
        /\ model_config = g.path
        /\ cache = None
        /\ returned = None
        /\ last = NoHistory

SettingsInit ==
    \E env \in Environments, v \in EnvValues, present \in SUBSET MayPreExist :
        SettingsInitWith(env, v, FsWith(present))

\* ------------------------------------------------------------- actions
\* a call of get_env_file_path()
get_env_file_path_call ==
    /\ UNCHANGED <<authVars, threadVars, sessionVars>>
    /\ LET g == get_env_file_path(_env_file_path, AUTH_ENV_FILE, ENVIRONMENT, files)
       IN  /\ files' = g.fs
           /\ returned' = g.path
           /\ last' = [last EXCEPT !.op = "get_env_file_path"]
           /\ UNCHANGED <<ENVIRONMENT, AUTH_ENV_FILE, _env_file_path, _settings,
                          model_config, cache>>

\* set_env_file_path(path): the global, then get_settings.cache_clear()
set_env_file_path_keepcache(path, c) == [path |-> path, cache |-> c]
set_env_file_path(path, c) == [path |-> path, cache |-> None]

set_env_file_path_call ==
    /\ UNCHANGED <<authVars, threadVars, sessionVars>>
    /\ \E path \in SetPaths :
           LET r == set_env_file_path(path, cache)
           IN  /\ _env_file_path' = r.path
               /\ cache' = r.cache
               /\ returned' = None
               /\ last' = [last EXCEPT !.op = "set_env_file_path", !.set_env_file_path = path]
               /\ UNCHANGED <<ENVIRONMENT, AUTH_ENV_FILE, files, _settings, model_config>>

\* configure(settings): the global, then get_settings.cache_clear()
configure_keepcache(st, c) == [settings |-> st, cache |-> c]
configure(st, c) == [settings |-> st, cache |-> None]

configure_call ==
    /\ UNCHANGED <<authVars, threadVars, sessionVars>>
    /\ \E st \in Configured :
           LET r == configure(st, cache)
           IN  /\ _settings' = r.settings
               /\ cache' = r.cache
               /\ returned' = None
               /\ last' = [last EXCEPT !.op = "configure", !.configure = st]
               /\ UNCHANGED <<ENVIRONMENT, AUTH_ENV_FILE, files, _env_file_path, model_config>>

\* the body of get_settings, run on a cache miss; loads says whether Settings()
\* finds every required field
get_settings_body(configured, override, auth_env_file, env, fs, config, loads) ==
    IF configured # None
    THEN [value |-> configured, raised |-> FALSE, fs |-> fs, config |-> config]
    ELSE LET g == get_env_file_path(override, auth_env_file, env, fs)
         IN  IF loads
             THEN [value |-> EnvLoaded(g.path), raised |-> FALSE, fs |-> g.fs, config |-> g.path]
             ELSE [value |-> ValidationError, raised |-> TRUE, fs |-> g.fs, config |-> g.path]

\* a call of get_settings() through its lru_cache wrapper
get_settings_call ==
    /\ UNCHANGED <<authVars, threadVars, sessionVars>>
    /\ \E loads \in BOOLEAN :
           /\ last' = [last EXCEPT !.op = "get_settings"]
           /\ IF cache # None
              THEN /\ returned' = cache
                   /\ UNCHANGED <<files, model_config, cache>>
              ELSE LET r == get_settings_body(_settings, _env_file_path, AUTH_ENV_FILE,
                                              ENVIRONMENT, files, model_config, loads)
                   IN  /\ returned' = r.value
                       /\ files' = r.fs
                       /\ model_config' = r.config
                       /\ cache' = IF r.raised THEN None ELSE r.value
           /\ UNCHANGED <<ENVIRONMENT, AUTH_ENV_FILE, _env_file_path, _settings>>

\* =================================================================
\* database/db.py
\* =================================================================
Generators == 1 .. NumGenerators

\* an exception object; base says whether `except Exception` catches it
Exc(name, base) == [kind |-> "exception", name |-> name, base |-> base]
\* what opening the session can raise
OpenErrors == {Exc("SQLAlchemyError", "Exception")}
\* what the consumer can throw in at the yield: an error of the request, or
\* the cancellation of its task (a BaseException since Python 3.8)
ThrownIn == {Exc("RuntimeError", "Exception"), Exc("CancelledError", "BaseException")}
\* thrown in at the yield by aclose()
GeneratorExit == Exc("GeneratorExit", "BaseException")
\* what the consumer gets when the generator ends without raising
StopAsyncIteration == [kind |-> "StopAsyncIteration"]
Yielded == [kind |-> "session"]

\* the generator as get_session() returns it, not started
SessionsInitWith(silent) ==
    /\ fail_silently = silent
    /\ gpc = [g \in Generators |-> "created"]
    /\ session = [g \in Generators |-> "none"]
    /\ yields = [g \in Generators |-> 0]
    /\ logged = [g \in Generators |-> None]
    /\ thrown = [g \in Generators |-> None]
    /\ given = [g \in Generators |-> None]

\* get_session() of the module: DatabaseSession(settings), fail_silently False
SessionsInit == SessionsInitWith([g \in Generators |-> FALSE])

\* lines 25-29: the except clause, for an exception e leaving the try body
except_Exception_always_raise(e, silent) ==
    IF e.base = "Exception" THEN [logged |-> e, out |-> e]
    ELSE [logged |-> None, out |-> e]
except_Exception(e, silent) ==
    IF e.base = "Exception"
    THEN [logged |-> e, out |-> IF ~silent THEN e ELSE StopAsyncIteration]
    ELSE [logged |-> None, out |-> e]

\* the exception e leaves the try body of generator g, which ends
Leaves(g, e) ==
    LET h == except_Exception(e, fail_silently[g])
    IN  /\ logged' = [logged EXCEPT ![g] = h.logged]
        /\ given' = [given EXCEPT ![g] = h.out]
        /\ gpc' = [gpc EXCEPT ![g] = "ended"]

\* the consumer's __anext__(): the first one runs lines 22-24 to the yield, or
\* to an exception of SessionLocal(); the second one resumes after the yield,
\* leaves the `async with`, which closes the session, and ends the generator
anext(g) ==
    /\ UNCHANGED <<authVars, settingsVars, threadVars, fail_silently>>
    /\ CASE gpc[g] = "created" ->
              \/ /\ session' = [session EXCEPT ![g] = "open"]
                 /\ yields' = [yields EXCEPT ![g] = @ + 1]
                 /\ gpc' = [gpc EXCEPT ![g] = "yielded"]
                 /\ given' = [given EXCEPT ![g] = Yielded]
                 /\ UNCHANGED <<logged, thrown>>
              \/ \E e \in OpenErrors :
                    /\ thrown' = [thrown EXCEPT ![g] = e]
                    /\ Leaves(g, e)
                    /\ UNCHANGED <<session, yields>>
         [] gpc[g] = "yielded" ->
              /\ session' = [session EXCEPT ![g] = "closed"]
              /\ gpc' = [gpc EXCEPT ![g] = "ended"]
              /\ given' = [given EXCEPT ![g] = StopAsyncIteration]
              /\ UNCHANGED <<yields, logged, thrown>>
         [] OTHER -> FALSE

\* the consumer's athrow(e) at the yield: the `async with` closes the session
\* and lets e through to the except clause
athrow(g) ==
    /\ UNCHANGED <<authVars, settingsVars, threadVars, fail_silently, yields>>
    /\ gpc[g] = "yielded"
    /\ \E e \in ThrownIn :
          /\ thrown' = [thrown EXCEPT ![g] = e]
          /\ session' = [session EXCEPT ![g] = "closed"]
          /\ Leaves(g, e)

\* the consumer's aclose(): GeneratorExit at the yield, which aclose() absorbs;
\* a generator that was never started just ends
aclose(g) ==
    /\ UNCHANGED <<authVars, settingsVars, threadVars, fail_silently, yields, thrown>>
    /\ CASE gpc[g] = "created" ->
              /\ gpc' = [gpc EXCEPT ![g] = "ended"]
              /\ UNCHANGED <<session, logged, given>>
         [] gpc[g] = "yielded" ->
              LET h == except_Exception(GeneratorExit, fail_silently[g])
              IN  /\ session' = [session EXCEPT ![g] = "closed"]
                  /\ logged' = [logged EXCEPT ![g] = h.logged]
                  /\ given' = [given EXCEPT ![g] = None]
                  /\ gpc' = [gpc EXCEPT ![g] = "ended"]
         [] OTHER -> FALSE

\* ---------------------------------------------------------------- threads
Threads == 1 .. NumThreads

\* no thread is inside a settings function
ThreadsInit ==
    /\ tpc = [t \in Threads |-> "idle"]
    /\ tlocal = [t \in Threads |-> None]
    /\ tret = [t \in Threads |-> None]
    /\ settled = None

\* what the lru_cache wrapper does with a computed value: it is stored unless
\* the cache was filled meanwhile; a cache_clear in between is not noticed
lru_store(c, value) == IF c # None THEN c ELSE value

Goto(t, at) == tpc' = [tpc EXCEPT ![t] = at]

\* one step of thread t inside get_settings(): the wrapper's lookup, lines 148,
\* 149, 151-153 and 154 of the body, and the wrapper's store and return
get_settings_thread(t) ==
    /\ UNCHANGED <<authVars, sessionVars, ENVIRONMENT, AUTH_ENV_FILE, _env_file_path, _settings,
                   returned, last, settled>>
    /\ CASE tpc[t] = "idle" ->
              /\ Goto(t, "gs_lookup")
              /\ UNCHANGED <<files, model_config, cache, tlocal, tret>>
         [] tpc[t] = "gs_lookup" ->
              IF cache # None
              THEN /\ tret' = [tret EXCEPT ![t] = cache]
                   /\ Goto(t, "idle")
                   /\ UNCHANGED <<files, model_config, cache, tlocal>>
              ELSE /\ Goto(t, "gs_148")
                   /\ UNCHANGED <<files, model_config, cache, tlocal, tret>>
         [] tpc[t] = "gs_148" ->
              /\ Goto(t, IF _settings # None THEN "gs_149" ELSE "gs_151")
              /\ UNCHANGED <<files, model_config, cache, tlocal, tret>>
         [] tpc[t] = "gs_149" ->
              /\ tlocal' = [tlocal EXCEPT ![t] = _settings]
              /\ Goto(t, "gs_store")
              /\ UNCHANGED <<files, model_config, cache, tret>>
         [] tpc[t] = "gs_151" ->
              LET g == get_env_file_path(_env_file_path, AUTH_ENV_FILE, ENVIRONMENT, files)
              IN  /\ files' = g.fs
                  /\ model_config' = g.path
                  /\ Goto(t, "gs_154")
                  /\ UNCHANGED <<cache, tlocal, tret>>
         [] tpc[t] = "gs_154" ->
              \E loads \in BOOLEAN :
                 IF loads
                 THEN /\ tlocal' = [tlocal EXCEPT ![t] = EnvLoaded(model_config)]
                      /\ Goto(t, "gs_store")
                      /\ UNCHANGED <<files, model_config, cache, tret>>
                 ELSE /\ tret' = [tret EXCEPT ![t] = ValidationError]
                      /\ Goto(t, "idle")
                      /\ UNCHANGED <<files, model_config, cache, tlocal>>
         [] tpc[t] = "gs_store" ->
              /\ cache' = lru_store(cache, tlocal[t])
              /\ tret' = [tret EXCEPT ![t] = tlocal[t]]
              /\ Goto(t, "idle")
              /\ UNCHANGED <<files, model_config, tlocal>>
         [] OTHER -> FALSE

\* one step of thread t inside configure(st): line 136, then line 138
configure_thread(t) ==
    /\ UNCHANGED <<authVars, sessionVars, ENVIRONMENT, AUTH_ENV_FILE, files, _env_file_path,
                   model_config, returned, last, tret>>
    /\ CASE tpc[t] = "idle" ->
              \E st \in Configured :
                 /\ _settings' = st
                 /\ tlocal' = [tlocal EXCEPT ![t] = st]
                 /\ Goto(t, "cf_138")
                 /\ UNCHANGED <<cache, settled>>
         [] tpc[t] = "cf_138" ->
              /\ cache' = configure(tlocal[t], cache).cache
              /\ settled' = tlocal[t]
              /\ Goto(t, "idle")
              /\ UNCHANGED <<_settings, tlocal>>
         [] OTHER -> FALSE

\* one step of thread t inside set_env_file_path(path): line 66, then line 68
set_env_file_path_thread(t) ==
    /\ UNCHANGED <<authVars, sessionVars, ENVIRONMENT, AUTH_ENV_FILE, files, _settings,
                   model_config, returned, last, tret, settled>>
    /\ CASE tpc[t] = "idle" ->
              \E path \in SetPaths :
                 /\ _env_file_path' = path
                 /\ tlocal' = [tlocal EXCEPT ![t] = path]
                 /\ Goto(t, "sp_68")
                 /\ UNCHANGED cache
         [] tpc[t] = "sp_68" ->
              /\ cache' = set_env_file_path(tlocal[t], cache).cache
              /\ Goto(t, "idle")
              /\ UNCHANGED <<_env_file_path, tlocal>>
         [] OTHER -> FALSE

\* ---------------------------------------------------------- specifications
\* the authentication service, under a settings module left as imported
Init ==
    /\ AuthInit
    /\ SettingsInitWith("dev", None, BareFs)
    /\ ThreadsInit
    /\ SessionsInit

Next == \E p \in Procs : signup_user(p) \/ log_user_in(p)

Spec == Init /\ [][Next]_vars

\* the settings module, with no authentication call in flight
SettingsModuleInit ==
    /\ SettingsInit
    /\ ThreadsInit
    /\ SessionsInit
    /\ users = {}
    /\ settings = [passwordless_login_enabled |-> FALSE, email_verification_required |-> FALSE]
    /\ pc = [p \in Procs |-> "idle"]
    /\ call = [p \in Procs |-> NoCall]
    /\ user = [p \in Procs |-> None]
    /\ result = [p \in Procs |-> NoResult]

SettingsNext ==
    \/ get_env_file_path_call
    \/ set_env_file_path_call
    \/ configure_call
    \/ get_settings_call

SettingsSpec == SettingsModuleInit /\ [][SettingsNext]_vars

\* the settings module under concurrent threads
ThreadsModuleInit ==
    /\ SettingsInitWith("dev", None, BareFs)
    /\ ThreadsInit
    /\ SessionsInit
    /\ users = {}
    /\ settings = [passwordless_login_enabled |-> FALSE, email_verification_required |-> FALSE]
    /\ pc = [p \in Procs |-> "idle"]
    /\ call = [p \in Procs |-> NoCall]
    /\ user = [p \in Procs |-> None]
    /\ result = [p \in Procs |-> NoResult]

ThreadsNext ==
    \E t \in Threads :
        \/ get_settings_thread(t)
        \/ configure_thread(t)
        \/ set_env_file_path_thread(t)

ThreadsSpec == ThreadsModuleInit /\ [][ThreadsNext]_vars

\* the session generators of database/db.py, each driven by its consumer
SessionsModuleInit ==
    /\ \E silent \in [Generators -> BOOLEAN] : SessionsInitWith(silent)
    /\ SettingsInitWith("dev", None, BareFs)
    /\ ThreadsInit
    /\ users = {}
    /\ settings = [passwordless_login_enabled |-> FALSE, email_verification_required |-> FALSE]
    /\ pc = [p \in Procs |-> "idle"]
    /\ call = [p \in Procs |-> NoCall]
    /\ user = [p \in Procs |-> None]
    /\ result = [p \in Procs |-> NoResult]

SessionsNext == \E g \in Generators : anext(g) \/ athrow(g) \/ aclose(g)

SessionsSpec == SessionsModuleInit /\ [][SessionsNext]_vars

\* =================================================================
\* properties
\* =================================================================
Held(rows, email) == \E u \in rows : u.email = email
Raised(r) == r.kind \in {"HTTPException", "IntegrityError", "AttributeError"}

\* the step in which call p is made and runs to its first suspension or end
Called(p, op) == pc[p] = "idle" /\ pc'[p] # "idle" /\ call'[p].op = op
\* the step in which the awaited lookup of login p delivers
LookedUp(p) == pc[p] = "login_25" /\ pc'[p] # "login_25"
Finished(p, op) == pc[p] = "done" /\ call[p].op = op

\* C1: a signup_user call for an email no stored user has does not raise, and
\* a log_user_in with an email and the password whose hash is stored for it
\* (as after that signup) returns a session credential.
C1_SignupThenLogin ==
    [][\A p \in Procs :
          /\ (Called(p, "signup") /\ ~Held(users, call'[p].email))
                => ~Raised(result'[p])
          /\ (LookedUp(p) /\ Held(users, call[p].email)
                /\ get_user_by_email(users, call[p].email).password = Hash(call[p].password))
                => result'[p].kind = "token"]_vars

\* C2: with passwordless_login_enabled, a log_user_in whose lookup finds no
\* user for the email provisions an account for it and returns a credential.
C2_PasswordlessProvisions ==
    \A p \in Procs :
        (Finished(p, "login") /\ settings.passwordless_login_enabled /\ user[p] = None)
            => (result[p].kind = "token" /\ Held(users, call[p].email))

\* C3: a signup_user call whose email a stored user already holds ends, without
\* suspending, in DuplicateUserError (400 'User already exists.') and leaves the
\* user records as they were.
C3_DuplicateSignupRejected ==
    [][\A p \in Procs :
          (Called(p, "signup") /\ Held(users, call'[p].email))
              => (pc'[p] = "done" /\ result'[p] = DuplicateUserError /\ users' = users)]_vars

C3_Witness ==
    \E p \in Procs :
        /\ Finished(p, "signup")
        /\ Held(users, call[p].email)
        /\ result[p] = DuplicateUserError

\* C4: a log_user_in whose email no stored user holds ends in UserNotFoundError
\* (404) in every configuration, with no token and no change to the records.
C4_UnknownEmailNotFound ==
    [][\A p \in Procs :
          (LookedUp(p) /\ ~Held(users, call[p].email))
              => (pc'[p] = "done" /\ result'[p] = UserNotFoundError /\ users' = users)]_vars

C4_Witness ==
    \E p \in Procs :
        /\ Finished(p, "login")
        /\ settings.passwordless_login_enabled
        /\ ~Held(users, call[p].email)
        /\ result[p] = UserNotFoundError

\* C5: a log_user_in whose stored user has no password hash fails with
\* PasswordRequiredError (400 'Password is required.') in every configuration.
C5_PasswordRequired ==
    \A p \in Procs :
        (Finished(p, "login") /\ user[p].kind = "User" /\ user[p].password = None)
            => result[p] = PasswordRequiredError

\* C6: a log_user_in whose stored user has a password hash that the submitted
\* password does not verify against fails with InvalidCredentialsError (401).
C6_InvalidCredentials ==
    \A p \in Procs :
        (/\ Finished(p, "login")
         /\ user[p].kind = "User"
         /\ user[p].password # None
         /\ ~verify_password(call[p].password, user[p].password))
            => result[p] = InvalidCredentialsError

C9_ConfiguredWins ==
    (last.op = "get_settings" /\ last.configure # None) => returned = last.configure

\* get_settings has answered after a configure and a set_env_file_path, the
\* module having loaded from the environment before
C9_Witness ==
    /\ last.op = "get_settings"
    /\ last.configure # None
    /\ last.set_env_file_path # None
    /\ returned = last.configure
    /\ \E q \in DOMAIN files : files[q].kind = "text" /\ files[q].by = "auto-generated"

\* the path the priority rule names: the path last set, else a non-empty
\* AUTH_ENV_FILE, else BASE_DIR/.{ENVIRONMENT}.env; relative ones under BASE_DIR
PriorityPath ==
    LET chosen == IF last.set_env_file_path # None THEN last.set_env_file_path.parts
                  ELSE IF AUTH_ENV_FILE # None /\ AUTH_ENV_FILE.val # <<>>
                       THEN AUTH_ENV_FILE.val
                       ELSE <<"/", "pkg", DotEnvName(ENVIRONMENT)>>
    IN  IF chosen[1] = "/" THEN chosen ELSE <<"/", "pkg">> \o chosen

\* C10: get_env_file_path returns the path the priority rule names, resolved
\* against BASE_DIR; on return something exists there, a missing file having
\* been created with the generated header and every existing entry left as it was.
C10_EnvFilePath ==
    [][last'.op = "get_env_file_path" =>
          /\ returned'.parts = PriorityPath
          /\ PriorityPath \in DOMAIN files'
          /\ \A q \in DOMAIN files : q \in DOMAIN files' /\ files'[q] = files[q]
          /\ PriorityPath \notin DOMAIN files
                => files'[PriorityPath] = AutoGenerated(ENVIRONMENT)]_vars

\* a relative override has won over a set AUTH_ENV_FILE and its file was created
C10_Witness ==
    /\ last.op = "get_env_file_path"
    /\ last.set_env_file_path = Path(<<"custom.env">>)
    /\ AUTH_ENV_FILE # None /\ AUTH_ENV_FILE.val # <<>>
    /\ returned = Path(<<"/", "pkg", "custom.env">>)
    /\ files[returned.parts] = AutoGenerated(ENVIRONMENT)

\* a step of call p: its coroutine runs from one suspension to the next
Runs(p) == pc'[p] # pc[p]

\* C11: records are only ever added, and only by a create_user of a signup; a
\* log_user_in without passwordless_login_enabled, and any signup_user or
\* log_user_in run that ends in an exception, leaves every record as it was.
C11_RecordsOnlyCreatedBySignup ==
    [][/\ \A u \in users : u \in users'
       /\ users' # users =>
            \E p \in Procs : Runs(p) /\ pc[p] \in {"signup_65", "login_35"}
       /\ \A p \in Procs :
            /\ (Runs(p) /\ call'[p].op = "login" /\ ~settings.passwordless_login_enabled)
                  => users' = users
            /\ (Runs(p) /\ Raised(result'[p])) => users' = users]_vars

\* a signup and a passwordless-mode login have both failed over a table with records
C11_Witness ==
    \E p, q \in Procs :
        /\ Finished(p, "signup") /\ Raised(result[p])
        /\ Finished(q, "login") /\ Raised(result[q])
        /\ settings.passwordless_login_enabled
        /\ user[q].kind = "User"
        /\ users # {}

\* C12: log_user_in returns a credential only for the user its lookup found,
\* and only when that user has a password hash that the submitted password
\* verifies against, in every configuration.
C12_TokenOnlyAfterVerification ==
    \A p \in Procs :
        (Finished(p, "login") /\ result[p].kind = "token")
            => /\ user[p].kind = "User"
               /\ user[p] \in users
               /\ user[p].email = call[p].email
               /\ user[p].password # None
               /\ verify_password(call[p].password, user[p].password)
               /\ result[p].sub = user[p]

C12_Witness ==
    \E p \in Procs :
        /\ Finished(p, "login")
        /\ result[p] = generate_jwt_token(user[p], settings)
        /\ user[p].password = Hash(call[p].password)

\* no configure call is between its line 136 and its return
NoConfigureInFlight == \A t \in Threads : tpc[t] # "cf_138"
\* the step in which the get_settings() call of thread t returns a value
GetSettingsReturns(t) ==
    /\ tpc[t] \in {"gs_lookup", "gs_store"}
    /\ tpc'[t] = "idle"

\* C13: under concurrent threads, once configure(s) has returned and no other
\* configure is running, every get_settings() call that returns yields s.
C13_NoStaleSettings ==
    [][\A t \in Threads :
          (GetSettingsReturns(t) /\ settled # None /\ NoConfigureInFlight)
              => tret'[t] = settled]_vars

\* at most one session is yielded, and an ended generator has no open session
OneSessionAlwaysClosed(g) ==
    /\ yields[g] <= 1
    /\ gpc[g] = "ended" => session[g] # "open"
    /\ session[g] # "none" => yields[g] = 1

\* C14 as stated: at most one session, closed on every exit; any exception
\* raised while opening or thrown in by the consumer is logged, and reaches the
\* consumer exactly when fail_silently is false, the generator just ending
\* otherwise.
C14_AlwaysLoggedAndSilenced ==
    \A g \in Generators :
        /\ OneSessionAlwaysClosed(g)
        /\ (gpc[g] = "ended" /\ thrown[g] # None)
              => /\ logged[g] = thrown[g]
                 /\ given[g] = thrown[g] <=> ~fail_silently[g]
                 /\ fail_silently[g] => given[g] = StopAsyncIteration

\* C14 as amended: the logging and the fail_silently rule are those of
\* `except Exception`; an exception outside Exception (a CancelledError thrown
\* in) is not logged and reaches the consumer whatever fail_silently is.
C14_ExceptionLoggedAndSilenced ==
    \A g \in Generators :
        /\ OneSessionAlwaysClosed(g)
        /\ (gpc[g] = "ended" /\ thrown[g] # None /\ thrown[g].base = "Exception")
              => /\ logged[g] = thrown[g]
                 /\ given[g] = thrown[g] <=> ~fail_silently[g]
                 /\ fail_silently[g] => given[g] = StopAsyncIteration
        /\ (gpc[g] = "ended" /\ thrown[g] # None /\ thrown[g].base # "Exception")
              => /\ logged[g] = None
                 /\ given[g] = thrown[g]

\* one generator has swallowed an error thrown in at its yield, another has
\* let a cancellation through, both with fail_silently and their sessions closed
C14_Witness ==
    \E g, h \in Generators :
        /\ fail_silently[g] /\ fail_silently[h]
        /\ gpc[g] = "ended" /\ gpc[h] = "ended"
        /\ session[g] = "closed" /\ session[h] = "closed"
        /\ thrown[g] = Exc("RuntimeError", "Exception")
        /\ given[g] = StopAsyncIteration
        /\ thrown[h] = Exc("CancelledError", "BaseException")
        /\ given[h] = thrown[h]

====
